---------------------------- MODULE Spec2Model ----------------------------
(***************************************************************************)
(* A model of the minreq HTTP client: URL decomposition (parse_url), the   *)
(* request builder and its wire serialization (Request), response parsing  *)
(* (Response::from_stream, parse_status_line), decoder selection           *)
(* (Decoder::detect) and the connection dispatcher with redirect following *)
(* (Connection::send, send_https, handle_redirect).                        *)
(*                                                                         *)
(* Rust strings are modelled as TLA+ strings, one character per byte: the  *)
(* byte 0xNN is the character U+00NN.                                      *)
(***************************************************************************)
EXTENDS Integers, Sequences, FiniteSets, TLC

VARIABLES
    urlIn,      \* parse_url: the URL under test, with the parts it was built from
    parsed,     \* parse_url: the returned triple, or NoValue before the call
    req,        \* builder: the Request value being built
    lastOp,     \* builder: the last builder call applied to req, with its arguments
    wire,       \* builder: the String into_string returned, or NoValue
    stream,     \* from_stream: the byte source handed to the parser, in pieces
    resp,       \* from_stream: the outcome of the parse, or NoValue
    hdrs,       \* detect: the header mapping handed to Decoder::detect
    hdrs0,      \* detect: the header mapping as it was before detect ran
    decoder,    \* detect: the variant detect returned, or NoValue
    feature,    \* dispatcher: TRUE in a build with the "https" feature
    env,        \* dispatcher: the text of MINREQ_TIMEOUT, NoValue when it is not set
    pc,         \* dispatcher: where the chain of send calls stands
    conn,       \* dispatcher: the transport of the current dispatch: "none", "open",
                \* or "closed" once it was opened and dropped again
    written,    \* dispatcher: bytes of wire the transport has accepted in this dispatch
    nsend,      \* dispatcher: the number of Request::send calls made so far
    nconn,      \* dispatcher: the number of transport connections opened so far
    nredir,     \* dispatcher: the number of redirects followed so far
    prev,       \* dispatcher: the request and response the last redirect came from
    result      \* dispatcher: what the caller's send call ended with, or NoResult

urlVars == <<urlIn, parsed>>
reqVars == <<req, lastOp, wire>>
respVars == <<stream, resp>>
decVars == <<hdrs, hdrs0, decoder>>
dispVars == <<feature, env, pc, conn, written, nsend, nconn, nredir, prev, result>>
vars == <<urlIn, parsed, req, lastOp, wire, stream, resp, hdrs, hdrs0, decoder,
          feature, env, pc, conn, written, nsend, nconn, nredir, prev, result>>

NoValue == [none |-> TRUE]
NoResult == [kind |-> "none"]

-----------------------------------------------------------------------------
(* Bounds of the model.                                                    *)

MaxHostLen == 2
MaxPathLen == 2
MaxBodyLen == 2
MaxHeaderLines == 2
MaxSends == 3
MaxChunk == 2

-----------------------------------------------------------------------------
(* String helpers: the std::str operations the code calls.                 *)

CharAt(s, i) == SubSeq(s, i, i)

StartsWith(s, p) == Len(s) >= Len(p) /\ SubSeq(s, 1, Len(p)) = p

\* str::find(c): the index (1-based) of the first c in s, 0 when there is none
Find(s, c) ==
    IF \E i \in 1..Len(s) : CharAt(s, i) = c
    THEN CHOOSE i \in 1..Len(s) :
            /\ CharAt(s, i) = c
            /\ \A j \in 1..(i - 1) : CharAt(s, j) # c
    ELSE 0

Contains(s, c) == Find(s, c) # 0

\* Bytes above 0x7F are written as the characters U+0080..U+00FF, in order.
HighBytes == " ¡¢£¤¥¦§¨©ª«¬­®¯°±²³´µ¶·¸¹º»¼½¾¿ÀÁÂÃÄÅÆÇÈÉÊËÌÍÎÏÐÑÒÓÔÕÖ×ØÙÚÛÜÝÞßàáâãäåæçèéêëìíîïðñòóôõö÷øùúûüýþÿ"
HighByteSet == {CharAt(HighBytes, i) : i \in 1..Len(HighBytes)}
\* the value of the byte c stands for (bytes below 0x80 are not told apart)
ByteOf(c) == IF c \in HighByteSet
             THEN CHOOSE n \in 128..255 : CharAt(HighBytes, n - 127) = c
             ELSE 0

\* the UTF-8 encodings of the characters with the White_Space property:
\* U+0009..U+000D and U+0020,
WhiteSpace1 == {"\t", "\n", "", "\f", "\r", " "}
\* U+0085 and U+00A0,
WhiteSpace2 == {"Â", "Â "}
\* U+1680, U+2000..U+200A, U+2028, U+2029, U+202F, U+205F and U+3000
WhiteSpace3 == {"á", "â", "â", "â", "â", "â",
                "â", "â", "â", "â", "â", "â",
                "â¨", "â©", "â¯", "â", "ã"}

\* char::is_whitespace, c being the bytes of one character
IsWhitespace(c) == c \in WhiteSpace1 \cup WhiteSpace2 \cup WhiteSpace3

\* the number of bytes of the whitespace character s starts with (ends with),
\* 0 when it starts (ends) with none
LeadingWhitespace(s) ==
    IF Len(s) >= 1 /\ IsWhitespace(SubSeq(s, 1, 1)) THEN 1
    ELSE IF Len(s) >= 2 /\ IsWhitespace(SubSeq(s, 1, 2)) THEN 2
    ELSE IF Len(s) >= 3 /\ IsWhitespace(SubSeq(s, 1, 3)) THEN 3
    ELSE 0
TrailingWhitespace(s) ==
    IF Len(s) >= 1 /\ IsWhitespace(SubSeq(s, Len(s), Len(s))) THEN 1
    ELSE IF Len(s) >= 2 /\ IsWhitespace(SubSeq(s, Len(s) - 1, Len(s))) THEN 2
    ELSE IF Len(s) >= 3 /\ IsWhitespace(SubSeq(s, Len(s) - 2, Len(s))) THEN 3
    ELSE 0

RECURSIVE TrimStart(_)
TrimStart(s) ==
    IF LeadingWhitespace(s) > 0
    THEN TrimStart(SubSeq(s, LeadingWhitespace(s) + 1, Len(s)))
    ELSE s

RECURSIVE TrimEnd(_)
TrimEnd(s) ==
    IF TrailingWhitespace(s) > 0
    THEN TrimEnd(SubSeq(s, 1, Len(s) - TrailingWhitespace(s)))
    ELSE s

Trim(s) == TrimEnd(TrimStart(s))

\* the length of the UTF-8 sequence s starts with, 0 when s starts with none
\* (the table of core::str::from_utf8)
Utf8Width(s) ==
    LET b1 == ByteOf(CharAt(s, 1))
        b2 == IF Len(s) >= 2 THEN ByteOf(CharAt(s, 2)) ELSE 0
        b3 == IF Len(s) >= 3 THEN ByteOf(CharAt(s, 3)) ELSE 0
        b4 == IF Len(s) >= 4 THEN ByteOf(CharAt(s, 4)) ELSE 0
        cont(b) == b >= 128 /\ b <= 191
    IN  IF b1 < 128 THEN 1
        ELSE IF b1 >= 194 /\ b1 <= 223 THEN (IF cont(b2) THEN 2 ELSE 0)
        ELSE IF b1 = 224 THEN (IF b2 >= 160 /\ b2 <= 191 /\ cont(b3) THEN 3 ELSE 0)
        ELSE IF b1 = 237 THEN (IF b2 >= 128 /\ b2 <= 159 /\ cont(b3) THEN 3 ELSE 0)
        ELSE IF b1 >= 225 /\ b1 <= 239 THEN (IF cont(b2) /\ cont(b3) THEN 3 ELSE 0)
        ELSE IF b1 = 240 THEN (IF b2 >= 144 /\ b2 <= 191 /\ cont(b3) /\ cont(b4) THEN 4 ELSE 0)
        ELSE IF b1 >= 241 /\ b1 <= 243 THEN (IF cont(b2) /\ cont(b3) /\ cont(b4) THEN 4 ELSE 0)
        ELSE IF b1 = 244 THEN (IF b2 >= 128 /\ b2 <= 143 /\ cont(b3) /\ cont(b4) THEN 4 ELSE 0)
        ELSE 0

\* str::from_utf8(s).is_ok()
RECURSIVE Utf8Valid(_)
Utf8Valid(s) ==
    IF Len(s) = 0 THEN TRUE
    ELSE IF Utf8Width(s) = 0 THEN FALSE
    ELSE Utf8Valid(SubSeq(s, Utf8Width(s) + 1, Len(s)))

\* all strings over alphabet A of length at most n
RECURSIVE Strs(_, _)
Strs(A, n) ==
    IF n = 0 THEN {""}
    ELSE LET shorter == Strs(A, n - 1)
         IN  shorter \cup {s \o c : s \in shorter, c \in A}

-----------------------------------------------------------------------------
(* URL Parser.                                                             *)

\* the for loop of parse_url: acc = (first, second, slashes), i the next char
RECURSIVE parse_url_scan(_, _, _)
parse_url_scan(url, i, acc) ==
    IF i > Len(url) THEN acc
    ELSE LET c == CharAt(url, i)
             slashes == IF c = "/" THEN acc.slashes + 1 ELSE acc.slashes
             first == IF c # "/" /\ acc.slashes = 2
                      THEN acc.first \o c ELSE acc.first
             second == IF slashes >= 3 THEN acc.second \o c ELSE acc.second
         IN  parse_url_scan(url, i + 1,
                 [first |-> first, second |-> second, slashes |-> slashes])

\* a plausible slip: the default port does not depend on the scheme
parse_url_port80(url) ==
    LET acc == parse_url_scan(url, 1, [first |-> "", second |-> "", slashes |-> 0])
        second == IF acc.second = "" THEN "/" ELSE acc.second
        https == StartsWith(url, "https://")
        first == IF ~Contains(acc.first, ":") THEN acc.first \o ":80" ELSE acc.first
    IN  [host |-> first, resource |-> second, https |-> https]

parse_url(url) ==
    LET acc == parse_url_scan(url, 1, [first |-> "", second |-> "", slashes |-> 0])
        second == IF acc.second = "" THEN "/" ELSE acc.second
        https == StartsWith(url, "https://")
        first == IF ~Contains(acc.first, ":")
                 THEN acc.first \o (IF https THEN ":443" ELSE ":80")
                 ELSE acc.first
    IN  [host |-> first, resource |-> second, https |-> https]

\* URLs of the form scheme://host[:port][/path]
Schemes == {"http", "https"}
Hosts == Strs({"a", "."}, MaxHostLen) \ {""}
Ports == {"", "8", "8443"}
Paths == {""} \cup {"/" \o p : p \in Strs({"x", "/", ":"}, MaxPathLen)}

UrlText(scheme, host, port, path) ==
    scheme \o "://" \o host \o (IF port = "" THEN "" ELSE ":" \o port) \o path

Urls ==
    {[text |-> UrlText(s, h, p, r), scheme |-> s, host |-> h, port |-> p, path |-> r] :
        s \in Schemes, h \in Hosts, p \in Ports, r \in Paths}

IdleUrl == urlIn = NoValue /\ parsed = NoValue
IdleReq == req = NoValue /\ lastOp = NoValue /\ wire = NoValue
IdleResp == stream = NoValue /\ resp = NoValue
IdleDec == hdrs = NoValue /\ hdrs0 = NoValue /\ decoder = NoValue
IdleDisp == /\ feature = FALSE /\ env = NoValue /\ pc = "unused" /\ conn = "none" /\ written = 0
            /\ nsend = 0 /\ nconn = 0 /\ nredir = 0
            /\ prev = NoValue /\ result = NoResult

InitUrl == /\ urlIn \in Urls
           /\ parsed = NoValue
           /\ IdleReq /\ IdleResp /\ IdleDec /\ IdleDisp

ParseUrl == /\ parsed = NoValue
            /\ parsed' = parse_url(urlIn.text)
            /\ UNCHANGED <<urlIn, reqVars, respVars, decVars, dispVars>>

NextUrl == ParseUrl

SpecUrl == InitUrl /\ [][NextUrl]_vars

\* C1: for every URL scheme://host[:port][/path] with scheme http or https,
\* parse_url returns the host with its explicit port (or with ":443" for an
\* https:// URL and ":80" otherwise), the text from the third '/' on (or "/"),
\* and is_encrypted true exactly when the URL starts with "https://".
C1_ParseUrlRecovers ==
    parsed # NoValue =>
        /\ parsed.host =
              IF urlIn.port # "" THEN urlIn.host \o ":" \o urlIn.port
              ELSE IF urlIn.scheme = "https" THEN urlIn.host \o ":443"
              ELSE urlIn.host \o ":80"
        /\ parsed.resource = (IF urlIn.path = "" THEN "/" ELSE urlIn.path)
        /\ parsed.https = (urlIn.scheme = "https")
        /\ parsed.https = (Len(urlIn.text) >= 8 /\ SubSeq(urlIn.text, 1, 8) = "https://")

C1_Witness ==
    /\ parsed # NoValue
    /\ urlIn.scheme = "https"
    /\ urlIn.port = ""
    /\ Len(urlIn.path) > 2
    /\ parsed.host = urlIn.host \o ":443"


-----------------------------------------------------------------------------
(* Request Model.                                                          *)

None == [some |-> FALSE]
Some(v) == [some |-> TRUE, v |-> v]

BuiltIn == {"Get", "Head", "Post", "Put", "Delete", "Connect", "Options",
            "Trace", "Patch"}
Method(kind) == [kind |-> kind, text |-> ""]
Custom(s) == [kind |-> "Custom", text |-> s]

\* impl Display for Method
MethodText(m) ==
    CASE m.kind = "Get" -> "GET"
      [] m.kind = "Head" -> "HEAD"
      [] m.kind = "Post" -> "POST"
      [] m.kind = "Put" -> "PUT"
      [] m.kind = "Delete" -> "DELETE"
      [] m.kind = "Connect" -> "CONNECT"
      [] m.kind = "Options" -> "OPTIONS"
      [] m.kind = "Trace" -> "TRACE"
      [] m.kind = "Patch" -> "PATCH"
      [] m.kind = "Custom" -> m.text

\* HashMap<String, String>: a function from the keys present to their values
EmptyMap == [k \in {} |-> ""]
Insert(h, key, value) ==
    [k \in DOMAIN h \cup {key} |-> IF k = key THEN value ELSE h[k]]
Remove(h, key) == [k \in DOMAIN h \ {key} |-> h[k]]

\* Request::new
new(method, url) ==
    LET p == parse_url(url)
    IN  [method |-> method, host |-> p.host, resource |-> p.resource,
         headers |-> EmptyMap, body |-> None, timeout |-> None, https |-> p.https]

\* Request::with_header
with_header(r, key, value) ==
    [r EXCEPT !.headers = Insert(r.headers, key, value)]

\* Request::with_headers: inserts every entry of the given map
with_headers(r, m) ==
    [r EXCEPT !.headers =
        [k \in DOMAIN r.headers \cup DOMAIN m |->
            IF k \in DOMAIN m THEN m[k] ELSE r.headers[k]]]

\* format!("{}", n) of a usize: its decimal digits
Digits == <<"0", "1", "2", "3", "4", "5", "6", "7", "8", "9">>
DigitValue(c) == CHOOSE d \in 0..9 : Digits[d + 1] = c
IsDigit(c) == \E d \in 0..9 : Digits[d + 1] = c
RECURSIVE Dec(_)
Dec(n) == IF n < 10 THEN Digits[n + 1] ELSE Dec(n \div 10) \o Digits[(n % 10) + 1]

\* a plausible slip: an existing Content-Length is kept (entry().or_insert)
with_body_keep(r, body) ==
    LET body_length == Len(body)
        withBody == [r EXCEPT !.body = Some(body)]
    IN  IF "Content-Length" \in DOMAIN r.headers THEN withBody
        ELSE with_header(withBody, "Content-Length", Dec(body_length))

\* Request::with_body
with_body(r, body) ==
    LET body_length == Len(body)
        withBody == [r EXCEPT !.body = Some(body)]
    IN  with_header(withBody, "Content-Length", Dec(body_length))

\* Request::with_timeout
with_timeout(r, timeout) == [r EXCEPT !.timeout = Some(timeout)]

\* the orders in which a HashMap with key set K may be iterated
Orders(K) ==
    {o \in [1..Cardinality(K) -> K] : \A i, j \in DOMAIN o : o[i] = o[j] => i = j}

\* the "for (k, v) in self.headers" loop of into_string, in iteration order o
RECURSIVE HeaderLines(_, _, _)
HeaderLines(h, o, i) ==
    IF i > Len(o) THEN ""
    ELSE o[i] \o ": " \o h[o[i]] \o "\r\n" \o HeaderLines(h, o, i + 1)

\* a plausible slip: the body is pushed without the blank line before it
into_string_nosep(r, o) ==
    MethodText(r.method) \o " " \o r.resource \o " HTTP/1.1\r\nHost: " \o r.host \o "\r\n"
        \o HeaderLines(r.headers, o, 1)
        \o (IF r.body.some THEN r.body.v ELSE "\r\n")

\* Request::into_string, the header mapping iterated in order o
into_string(r, o) ==
    MethodText(r.method) \o " " \o r.resource \o " HTTP/1.1\r\nHost: " \o r.host \o "\r\n"
        \o HeaderLines(r.headers, o, 1)
        \o "\r\n"
        \o (IF r.body.some THEN r.body.v ELSE "")

\* the inputs of the builder
Methods == {Method(k) : k \in BuiltIn} \cup {Custom("GET"), Custom("BREW")}
ReqUrls == {"http://a:35562/a", "https://a"}
HeaderKeys == {"Ping", "Content-Length"}
HeaderValues == {"Qwerty", "7"}
HeaderMaps == UNION {[K -> HeaderValues] : K \in SUBSET HeaderKeys}
LongBody == "QQQQQQQQQQQQ"
Bodies == Strs({"Q", "\n"}, MaxBodyLen) \cup {LongBody}
Timeouts == {0, 30}

InitReq == /\ \E m \in Methods, u \in ReqUrls :
                /\ req = new(m, u)
                /\ lastOp = [op |-> "new", method |-> m, url |-> u]
           /\ wire = NoValue
           /\ IdleUrl /\ IdleResp /\ IdleDec /\ IdleDisp

WithHeader == /\ wire = NoValue
              /\ \E k \in HeaderKeys, v \in HeaderValues :
                    /\ req' = with_header(req, k, v)
                    /\ lastOp' = [op |-> "with_header", key |-> k, value |-> v]
              /\ UNCHANGED <<wire, urlVars, respVars, decVars, dispVars>>

WithHeaders == /\ wire = NoValue
               /\ \E m \in HeaderMaps :
                    /\ req' = with_headers(req, m)
                    /\ lastOp' = [op |-> "with_headers", map |-> m]
               /\ UNCHANGED <<wire, urlVars, respVars, decVars, dispVars>>

WithBody == /\ wire = NoValue
            /\ \E b \in Bodies :
                    /\ req' = with_body(req, b)
                    /\ lastOp' = [op |-> "with_body", content |-> b]
            /\ UNCHANGED <<wire, urlVars, respVars, decVars, dispVars>>

WithTimeout == /\ wire = NoValue
               /\ \E t \in Timeouts :
                    /\ req' = with_timeout(req, t)
                    /\ lastOp' = [op |-> "with_timeout", timeout |-> t]
               /\ UNCHANGED <<wire, urlVars, respVars, decVars, dispVars>>

IntoString == /\ wire = NoValue
              /\ \E o \in Orders(DOMAIN req.headers) :
                    wire' = [text |-> into_string(req, o)]
              /\ UNCHANGED <<req, lastOp, urlVars, respVars, decVars, dispVars>>

NextReq == WithHeader \/ WithHeaders \/ WithBody \/ WithTimeout \/ IntoString

SpecReq == InitReq /\ [][NextReq]_vars

\* the value of a string of decimal digits without a leading zero, -1 otherwise
RECURSIVE DigitsValue(_)
DigitsValue(s) ==
    IF Len(s) = 0 THEN 0
    ELSE 10 * DigitsValue(SubSeq(s, 1, Len(s) - 1)) + DigitValue(CharAt(s, Len(s)))
DecimalValue(s) ==
    IF /\ Len(s) > 0
       /\ \A i \in 1..Len(s) : IsDigit(CharAt(s, i))
       /\ (Len(s) > 1 => CharAt(s, 1) # "0")
    THEN DigitsValue(s) ELSE -1

\* the number of bytes after the first blank line (CR LF CR LF) of t, -1 if none
BytesAfterBlankLine(t) ==
    LET ends == {i \in 4..Len(t) : SubSeq(t, i - 3, i) = "\r\n\r\n"}
    IN  IF ends = {} THEN -1
        ELSE Len(t) - (CHOOSE i \in ends : \A j \in ends : i <= j)

\* C2: right after with_body(content), whatever builder calls came before, the
\* Content-Length header is the byte length N of content in decimal, and the
\* serialization of that request has exactly N bytes after the blank line that
\* ends its header block.
C2_BodyLength ==
    lastOp.op = "with_body" =>
        /\ req.body = Some(lastOp.content)
        /\ "Content-Length" \in DOMAIN req.headers
        /\ DecimalValue(req.headers["Content-Length"]) = Len(lastOp.content)
        /\ wire # NoValue => BytesAfterBlankLine(wire.text) = Len(lastOp.content)

C2_Witness ==
    /\ lastOp.op = "with_body"
    /\ lastOp.content = LongBody
    /\ "Ping" \in DOMAIN req.headers
    /\ wire # NoValue
    /\ req.headers["Content-Length"] = "12"

\* C8: into_string is the request line "<METHOD> <resource> HTTP/1.1", the Host
\* line, one "<key>: <value>" line per entry of the header mapping (each key
\* once, holding the value set last), a blank line and then the body if one is
\* set; a built-in method is rendered as its verb, a custom one verbatim, so
\* Custom("GET") serializes exactly like the built-in GET.
C8_WireFormat ==
    wire # NoValue =>
        LET t == wire.text
            verb == IF req.method.kind = "Custom" THEN req.method.text
                    ELSE MethodText(req.method)
            head == verb \o " " \o req.resource \o " HTTP/1.1\r\n"
                        \o "Host: " \o req.host \o "\r\n"
            tail == "\r\n" \o (IF req.body.some THEN req.body.v ELSE "")
            K == DOMAIN req.headers
        IN  /\ \E o \in Orders(K) :
                  t = head \o HeaderLines(req.headers, o, 1) \o tail
            /\ \A k \in K :
                  Cardinality({i \in 1..(Len(t) - Len(tail)) :
                      StartsWith(SubSeq(t, i, Len(t)), "\r\n" \o k \o ": ")}) = 1
            /\ lastOp.op = "with_header" =>
                  \E i \in 1..Len(t) :
                      StartsWith(SubSeq(t, i, Len(t)),
                          "\r\n" \o lastOp.key \o ": " \o lastOp.value \o "\r\n")
            /\ req.method \in {Custom("GET"), Method("Get")} =>
                  \E o \in Orders(K) :
                      /\ t = into_string([req EXCEPT !.method = Method("Get")], o)
                      /\ t = into_string([req EXCEPT !.method = Custom("GET")], o)

C8_Witness ==
    /\ wire # NoValue
    /\ req.method = Custom("GET")
    /\ DOMAIN req.headers = HeaderKeys
    /\ req.body.some /\ req.body.v # ""
    /\ lastOp.op = "with_header"


-----------------------------------------------------------------------------
(* Response Model.                                                         *)

\* impl From<i32> for Status
StatusFrom(i) ==
    [band |-> IF i >= 100 /\ i < 200 THEN "Info"
              ELSE IF i >= 200 /\ i < 300 THEN "Success"
              ELSE IF i >= 300 /\ i < 400 THEN "Redirect"
              ELSE IF i >= 400 /\ i < 500 THEN "ClientError"
              ELSE "ServerError",
     code |-> i]

\* str::split(' '): the pieces between single spaces, empty pieces kept
RECURSIVE Split(_)
Split(s) ==
    LET i == Find(s, " ")
    IN  IF i = 0 THEN <<s>>
        ELSE <<SubSeq(s, 1, i - 1)>> \o Split(SubSeq(s, i + 1, Len(s)))

\* str::parse::<i32>: an optional sign, then one or more digits, the value
\* accumulated with checked arithmetic (overflow is an error)
I32Max == 2147483647
RECURSIVE ParseDigits(_, _, _)
ParseDigits(s, neg, acc) ==
    IF Len(s) = 0 THEN [ok |-> TRUE, v |-> acc]
    ELSE LET c == CharAt(s, 1)
             d == DigitValue(c)
             lim == I32Max \div 10
         IN  IF ~IsDigit(c) THEN [ok |-> FALSE, v |-> 0]
             ELSE IF ~neg /\ (acc > lim \/ (acc = lim /\ d > 7)) THEN [ok |-> FALSE, v |-> 0]
             ELSE IF neg /\ (acc < -lim \/ (acc = -lim /\ d > 8)) THEN [ok |-> FALSE, v |-> 0]
             ELSE ParseDigits(SubSeq(s, 2, Len(s)), neg,
                              IF neg THEN acc * 10 - d ELSE acc * 10 + d)

ParseI32(s) ==
    LET signed == Len(s) > 0 /\ CharAt(s, 1) \in {"+", "-"}
        digits == IF signed THEN SubSeq(s, 2, Len(s)) ELSE s
    IN  IF Len(digits) = 0 THEN [ok |-> FALSE, v |-> 0]
        ELSE ParseDigits(digits, signed /\ CharAt(s, 1) = "-", 0)

FallbackCode == 503
FallbackReason == "Server did not provide a status line"

parse_status_line(line) ==
    LET split == Split(line)
    IN  IF Len(split) >= 2 /\ ParseI32(split[2]).ok /\ Len(split) >= 3
        THEN [status |-> StatusFrom(ParseI32(split[2]).v), reason_phrase |-> split[3]]
        ELSE [status |-> StatusFrom(FallbackCode), reason_phrase |-> FallbackReason]

\* BufRead::read_line on a source holding the bytes s: the line up to and
\* including the first LF, or all of s at the end of the data, where a source
\* whose transport fails (err) reports the failure instead of end-of-file,
\* and a line that is not valid UTF-8 is an error (InvalidData)
read_line(s, err) ==
    LET i == Find(s, "\n")
        line == IF i # 0 THEN SubSeq(s, 1, i) ELSE s
        rest == IF i # 0 THEN SubSeq(s, i + 1, Len(s)) ELSE ""
    IN  IF i = 0 /\ err THEN [ok |-> FALSE, line |-> line, rest |-> ""]
        ELSE IF ~Utf8Valid(line) THEN [ok |-> FALSE, line |-> line, rest |-> rest]
        ELSE [ok |-> TRUE, line |-> line, rest |-> rest]

\* the loop of from_stream that collects the trimmed header lines into buf
RECURSIVE read_header_lines(_, _, _)
read_header_lines(s, err, buf) ==
    LET r == read_line(s, err)
    IN  IF ~r.ok THEN [ok |-> FALSE, buf |-> buf, rest |-> ""]
        ELSE IF Trim(r.line) = "" THEN [ok |-> TRUE, buf |-> buf, rest |-> r.rest]
        ELSE read_header_lines(r.rest, err, Append(buf, Trim(r.line)))

\* the map(...).collect() of from_stream: later entries replace earlier ones
RECURSIVE collect_headers(_, _, _)
collect_headers(buf, i, h) ==
    IF i > Len(buf) THEN h
    ELSE LET elem == buf[i]
             idx == Find(elem, ":")
         IN  collect_headers(buf, i + 1,
                 Insert(h, SubSeq(elem, 1, idx - 1), Trim(SubSeq(elem, idx + 1, Len(elem)))))

\* Response::from_stream.  The outcome is Ok with the Response, Err (an
\* io::Error handed to the caller by "?"), or Panic (an unwrap on None).
from_stream(st) ==
    LET first == read_line(st.bytes, st.err)
        sl == parse_status_line(first.line)
        lines == read_header_lines(first.rest, st.err, <<>>)
    IN  IF ~first.ok THEN [kind |-> "Err", at |-> "status line"]
        ELSE IF ~lines.ok THEN [kind |-> "Err", at |-> "headers"]
        ELSE IF \E i \in 1..Len(lines.buf) : Find(lines.buf[i], ":") = 0
             THEN [kind |-> "Panic", at |-> "headers"]
        ELSE [kind |-> "Ok",
              status |-> sl.status,
              reason_phrase |-> sl.reason_phrase,
              headers |-> collect_headers(lines.buf, 1, EmptyMap),
              body |-> [bytes |-> lines.rest, err |-> st.err]]

\* A byte source is kept as a sequence of pieces: Text(s) stands for the bytes
\* of the string s (all below 0x80), Byte(n) for the single byte n in 128..255.
Text(s) == [text |-> s]
Byte(n) == [byte |-> n]
RECURSIVE BytesOf(_)
BytesOf(src) ==
    IF Len(src) = 0 THEN ""
    ELSE (IF "byte" \in DOMAIN Head(src)
          THEN CharAt(HighBytes, Head(src).byte - 127)
          ELSE Head(src).text)
            \o BytesOf(Tail(src))

\* the Read handed to from_stream for the source st
Reader(st) == [bytes |-> BytesOf(st.src), err |-> st.err]

\* the byte streams a server may send
FirstTokens == {"HTTP/1.1", ""}
CodeTokens == {"200", "301", "404", "600", "2x", "", "+3", "-7",
               "2147483647", "2147483648"}
ReasonTokens == {"OK", ""}
StatusLines ==
    {""} \cup {a \o t : a \in FirstTokens, t \in {"", "\r\n"}}
         \cup {a \o " " \o b \o t : a \in FirstTokens, b \in CodeTokens, t \in {"", "\r\n"}}
         \cup {a \o " " \o b \o " " \o c \o "\r\n" :
                  a \in FirstTokens, b \in CodeTokens, c \in ReasonTokens}
HeaderTexts == {"Location: /new", "Content-Length:1", "Location:  /b ", "no separator"}
RECURSIVE HeaderBlocks(_)
HeaderBlocks(n) ==
    IF n = 0 THEN {""}
    ELSE LET shorter == HeaderBlocks(n - 1)
         IN  shorter \cup {b \o h \o "\r\n" : b \in shorter, h \in HeaderTexts}
\* lines with whitespace other than space, tab, CR and LF (form feed, U+000B,
\* U+00A0) and lines that are not valid UTF-8 (a lone 0xFF, a cut sequence)
OddStatusLines ==
    {<<Text("HTTP/1.1 200 OK\r\n")>>, <<Text("HTTP/1.1 2x OK\r\n")>>,
     <<Byte(255), Text("\r\n")>>, <<Text("HTTP/1.1 2x "), Byte(255), Text("\r\n")>>,
     <<Text("HTTP/1.1 200 "), Byte(195), Text("(\r\n")>>}
OddHeaderTexts ==
    {<<Text("\f")>>, <<Byte(194), Byte(160), Text("")>>,
     <<Text("Location:\f/b"), Byte(194), Byte(160)>>,
     <<Text("Ping: "), Byte(255)>>, <<Text("no separator")>>}
OddHeaderBlocks ==
    {<<Text(a)>> \o h \o <<Text("\r\n" \o b)>> : h \in OddHeaderTexts,
        a \in {"", "Location: /new\r\n"}, b \in {"", "Content-Length:1\r\n"}}
Streams ==
    {[src |-> <<Text(l \o h \o e \o b)>>, err |-> x] :
        l \in StatusLines, h \in HeaderBlocks(MaxHeaderLines),
        e \in {"", "\r\n"}, b \in {"", "B"}, x \in BOOLEAN}
    \cup {[src |-> l \o h \o <<Text("\r\n" \o b)>>, err |-> x] :
            l \in OddStatusLines, h \in OddHeaderBlocks, b \in {"", "B"}, x \in BOOLEAN}

InitResp == /\ stream \in Streams
            /\ resp = NoValue
            /\ IdleUrl /\ IdleReq /\ IdleDec /\ IdleDisp

FromStream == /\ resp = NoValue
              /\ resp' = from_stream(Reader(stream))
              /\ UNCHANGED <<stream, urlVars, reqVars, decVars, dispVars>>

NextResp == FromStream

SpecResp == InitResp /\ [][NextResp]_vars

\* the lines of s, each with its terminating LF (the last one may lack it)
RECURSIVE LinesOf(_)
LinesOf(s) ==
    IF s = "" THEN <<>>
    ELSE LET ends == {i \in 1..Len(s) : CharAt(s, i) = "\n"}
             e == IF ends = {} THEN Len(s) ELSE CHOOSE i \in ends : \A j \in ends : i <= j
         IN  <<SubSeq(s, 1, e)>> \o LinesOf(SubSeq(s, e + 1, Len(s)))

IsBlank(l) == \A i \in 1..Len(l) : CharAt(l, i) \in {" ", "\t", "\r", "\n"}

\* the lines of the header block of s: those after the first line and before
\* the first blank line
HeaderBlockOf(s) ==
    LET ls == LinesOf(s)
        blanks == {i \in 2..Len(ls) : IsBlank(ls[i])}
        stop == IF blanks = {} THEN Len(ls) + 1 ELSE CHOOSE i \in blanks : \A j \in blanks : i <= j
    IN  [i \in 1..(stop - 2) |-> ls[i + 1]]

HasColon(l) == \E i \in 1..Len(l) : CharAt(l, i) = ":"

\* the space-separated tokens of the first line of s (none for an empty stream)
RECURSIVE TokensOf(_)
TokensOf(l) ==
    LET sp == {i \in 1..Len(l) : CharAt(l, i) = " "}
    IN  IF sp = {} THEN <<l>>
        ELSE LET i == CHOOSE i \in sp : \A j \in sp : i <= j
             IN  <<SubSeq(l, 1, i - 1)>> \o TokensOf(SubSeq(l, i + 1, Len(l)))
FirstLineTokens(s) == IF s = "" THEN <<>> ELSE TokensOf(LinesOf(s)[1])

\* the status line is missing or unparsable
BadStatusLine(s) ==
    \/ Len(FirstLineTokens(s)) < 2
    \/ ~ParseI32(FirstLineTokens(s)[2]).ok

\* the transport delivered every line: no read of the stream failed
ReadsSucceed(st) == ~st.err

\* C3: a stream whose first line is missing, has fewer than two tokens or has a
\* second token that is no integer never fails in the status line: the parse
\* goes on to the header block, and the Response it yields has status 503
\* and the reason "Server did not provide a status line".
C3_StatusLineFallback ==
    (resp # NoValue /\ BadStatusLine(Reader(stream).bytes)) =>
        /\ (ReadsSucceed(stream) /\ \A i \in DOMAIN HeaderBlockOf(Reader(stream).bytes) :
                                        /\ HasColon(HeaderBlockOf(Reader(stream).bytes)[i])
                                        /\ Utf8Valid(HeaderBlockOf(Reader(stream).bytes)[i]))
              => resp.kind = "Ok"
        /\ resp.kind = "Ok" =>
              /\ resp.status = [band |-> "ServerError", code |-> 503]
              /\ resp.reason_phrase = "Server did not provide a status line"
        /\ resp.kind # "Ok" => resp.at # "status line" \/ ~ReadsSucceed(stream)

\* C4: a header block holding a non-empty line without ':' makes from_stream
\* return a malformed-response error value; the line is not skipped and no
\* Response is produced.
C4_MalformedHeaderIsError ==
    (/\ resp # NoValue
     /\ \E i \in DOMAIN HeaderBlockOf(Reader(stream).bytes) : ~HasColon(HeaderBlockOf(Reader(stream).bytes)[i]))
        => resp.kind = "Err"


-----------------------------------------------------------------------------
(* Decoder.                                                                *)

\* detect_encoding
detect_encoding(headers) ==
    IF "Content-Encoding" \in DOMAIN headers THEN Trim(headers["Content-Encoding"])
    ELSE IF "Transfer-Encoding" \in DOMAIN headers THEN Trim(headers["Transfer-Encoding"])
    ELSE ""

\* Decoder::detect: the variant chosen and the header mapping it leaves
detect(headers) ==
    LET enc == detect_encoding(headers)
        stripped == Remove(Remove(headers, "Content-Encoding"), "Content-Length")
    IN  IF enc = "gzip" THEN [variant |-> "Gzip", headers |-> stripped]
        ELSE IF enc = "deflate" THEN [variant |-> "Deflate", headers |-> stripped]
        ELSE [variant |-> "Identity", headers |-> headers]

EncodingValues == {"gzip", " gzip\t", "deflate", "GZIP", "br", "\fgzip", "deflate"}
Optional(key, values) == {EmptyMap} \cup {[k \in {key} |-> v] : v \in values}
Merge(f, g) == [k \in DOMAIN f \cup DOMAIN g |-> IF k \in DOMAIN f THEN f[k] ELSE g[k]]
ResponseHeaders ==
    {Merge(Merge(ce, te), Merge(cl, sv)) :
        ce \in Optional("Content-Encoding", EncodingValues),
        te \in Optional("Transfer-Encoding", EncodingValues),
        cl \in Optional("Content-Length", {"3"}),
        sv \in Optional("Server", {"tiny"})}

InitDec == /\ hdrs0 \in ResponseHeaders
           /\ hdrs = hdrs0
           /\ decoder = NoValue
           /\ IdleUrl /\ IdleReq /\ IdleResp /\ IdleDisp

Detect == /\ decoder = NoValue
          /\ LET d == detect(hdrs)
             IN  /\ decoder' = [variant |-> d.variant]
                 /\ hdrs' = d.headers
          /\ UNCHANGED <<hdrs0, urlVars, reqVars, respVars, dispVars>>

NextDec == Detect

SpecDec == InitDec /\ [][NextDec]_vars

\* the header that supplies the encoding, "" when there is none
EncodingSource(h) ==
    IF "Content-Encoding" \in DOMAIN h THEN "Content-Encoding"
    ELSE IF "Transfer-Encoding" \in DOMAIN h THEN "Transfer-Encoding"
    ELSE ""

\* C5: when the trimmed value of Content-Encoding (or, without it, of
\* Transfer-Encoding) is exactly "gzip" or "deflate", detect returns the
\* matching variant and leaves the mapping without the header that supplied
\* the value and without Content-Length, the other headers unchanged; in
\* every other case it returns Identity and leaves the mapping unchanged.
C5_DetectStrips ==
    decoder # NoValue =>
        LET src == EncodingSource(hdrs0)
            enc == IF src = "" THEN "" ELSE Trim(hdrs0[src])
        IN  IF enc \in {"gzip", "deflate"}
            THEN /\ decoder.variant = (IF enc = "gzip" THEN "Gzip" ELSE "Deflate")
                 /\ DOMAIN hdrs = DOMAIN hdrs0 \ {src, "Content-Length"}
                 /\ \A k \in DOMAIN hdrs : hdrs[k] = hdrs0[k]
            ELSE /\ decoder.variant = "Identity"
                 /\ hdrs = hdrs0


-----------------------------------------------------------------------------
(* Connection Dispatcher.                                                  *)

\* a plausible slip: the scheme check is dropped and every request goes out
\* over plain TCP when TLS is not compiled in
request_send_unchecked(r, https_feature) ==
    IF r.https /\ https_feature THEN "send_https" ELSE "send"

\* Request::send, in the build with (https_feature) or without the "https"
\* feature: which way the request goes
request_send(r, https_feature) ==
    IF r.https
    THEN IF https_feature THEN "send_https" ELSE "panic"
    ELSE "send"

\* a plausible slip: the body of the original request is kept
redirect_request_keep_body(r, loc) ==
    LET url == IF StartsWith(loc, "https://") \/ StartsWith(loc, "http://") THEN loc
               ELSE (IF r.https THEN "https://" ELSE "http://") \o r.host \o loc
        p == parse_url(url)
    IN  [r EXCEPT !.host = p.host, !.resource = p.resource, !.https = p.https]

\* Connection::handle_redirect: the request re-sent for Location loc
redirect_request(r, loc) ==
    LET url == IF StartsWith(loc, "https://") \/ StartsWith(loc, "http://") THEN loc
               ELSE (IF r.https THEN "https://" ELSE "http://") \o r.host \o loc
        p == parse_url(url)
    IN  [r EXCEPT !.host = p.host, !.resource = p.resource, !.https = p.https,
                  !.body = None]

\* a plausible slip: any response carrying Location is followed
after_response_any_location(rsp) ==
    IF "Location" \in DOMAIN rsp.headers THEN "follow" ELSE "return"

\* the match on resp.status in send and send_https, and the Location lookup of
\* handle_redirect: follow the redirect, or return the response as it is
after_response(rsp) ==
    IF rsp.status.band = "Redirect" /\ "Location" \in DOMAIN rsp.headers
    THEN "follow" ELSE "return"

\* str::parse::<u64>: an optional '+', then one or more digits, the value
\* accumulated with checked arithmetic.  Overflow is decided on the digits;
\* a value above 2^31 - 1 is kept as 2^31 - 1 (the dispatcher only tells a
\* zero count of seconds from a non-zero one).
U64MaxText == "18446744073709551615"
RECURSIVE StripZeros(_)
StripZeros(d) == IF Len(d) > 1 /\ CharAt(d, 1) = "0" THEN StripZeros(SubSeq(d, 2, Len(d))) ELSE d
RECURSIVE DigitsLeq(_, _)
DigitsLeq(a, b) ==
    IF Len(a) = 0 THEN TRUE
    ELSE IF DigitValue(CharAt(a, 1)) # DigitValue(CharAt(b, 1))
         THEN DigitValue(CharAt(a, 1)) < DigitValue(CharAt(b, 1))
         ELSE DigitsLeq(SubSeq(a, 2, Len(a)), SubSeq(b, 2, Len(b)))
ParseU64(s) ==
    LET digits == IF Len(s) > 0 /\ CharAt(s, 1) = "+" THEN SubSeq(s, 2, Len(s)) ELSE s
        sig == StripZeros(digits)
    IN  IF Len(digits) = 0 \/ \E i \in 1..Len(digits) : ~IsDigit(CharAt(digits, i))
        THEN [ok |-> FALSE, v |-> 0]
        ELSE IF Len(sig) > Len(U64MaxText)
                \/ (Len(sig) = Len(U64MaxText) /\ ~DigitsLeq(sig, U64MaxText))
        THEN [ok |-> FALSE, v |-> 0]
        ELSE IF Len(sig) > 10 \/ (Len(sig) = 10 /\ ~DigitsLeq(sig, Dec(I32Max)))
        THEN [ok |-> TRUE, v |-> I32Max]
        ELSE [ok |-> TRUE, v |-> DigitsValue(sig)]

\* Connection::new: the timeout of the connection, the request's own or else
\* the one MINREQ_TIMEOUT gives (e is its text, NoValue when it is not set)
connection_new(r, e) ==
    IF r.timeout.some THEN r.timeout
    ELSE IF e = NoValue THEN None
    ELSE IF ParseU64(e.text).ok THEN Some(ParseU64(e.text).v)
    ELSE None

\* create_tcp_stream once TcpStream::connect has succeeded: set_read_timeout
\* refuses a zero Duration, and the stream is dropped with the error
set_timeouts(timeout) ==
    IF timeout.some /\ timeout.v = 0 THEN "Err" ELSE "Ok"

\* send_https: the text of the host before its first ':'
dns_name(host) ==
    IF Find(host, ":") = 0 THEN host ELSE SubSeq(host, 1, Find(host, ":") - 1)

\* DNSNameRef::try_from_ascii_str(name).is_ok(): labels of letters, digits,
\* '_' and inner '-', separated by '.', no label empty (one dot may end the
\* name), at most 63 bytes a label and 253 in all, the last label not numeric
Letters == "abcdefghijklmnopqrstuvwxyzABCDEFGHIJKLMNOPQRSTUVWXYZ_"
LetterSet == {CharAt(Letters, i) : i \in 1..Len(Letters)}
RECURSIVE dns_scan(_, _, _)
dns_scan(name, i, st) ==
    IF i > Len(name)
    THEN ~st.hyphen /\ ~st.numeric
    ELSE LET c == CharAt(name, i)
         IN  IF st.len >= 63 /\ c # "." THEN FALSE
             ELSE IF c = "-"
             THEN st.len > 0 /\ dns_scan(name, i + 1,
                        [len |-> st.len + 1, numeric |-> FALSE, hyphen |-> TRUE])
             ELSE IF IsDigit(c)
             THEN dns_scan(name, i + 1,
                        [len |-> st.len + 1, hyphen |-> FALSE,
                         numeric |-> IF st.len = 0 THEN TRUE ELSE st.numeric])
             ELSE IF c \in LetterSet
             THEN dns_scan(name, i + 1,
                        [len |-> st.len + 1, numeric |-> FALSE, hyphen |-> FALSE])
             ELSE IF c = "."
             THEN st.len > 0 /\ ~st.hyphen /\ dns_scan(name, i + 1, [st EXCEPT !.len = 0])
             ELSE FALSE
try_from_ascii_str(name) ==
    /\ Len(name) > 0
    /\ Len(name) <= 253
    /\ dns_scan(name, 1, [len |-> 0, numeric |-> FALSE, hyphen |-> FALSE])

\* how many of the remaining bytes one write call of the transport may accept
Accepts(remaining) ==
    {n \in 1..remaining : n <= MaxChunk \/ n = remaining}

\* the requests a caller sends
DispatchRequests ==
    {IF b = "" THEN r ELSE with_body(r, b) :
        r \in {IF h THEN with_header(new(m, u), "Ping", "Qwerty") ELSE new(m, u) :
                  m \in {Method("Get"), Method("Post")},
                  u \in {"http://a/x", "https://a/x"},
                  h \in BOOLEAN},
        b \in {"", "Q"}}

\* the byte streams the server may answer with
ServerStreams ==
    {[src |-> <<Text(b)>>, err |-> FALSE] :
        b \in {"HTTP/1.1 200 OK\r\n\r\nj: Q",
               "HTTP/1.1 301 Moved\r\nLocation: /new\r\n\r\n",
               "HTTP/1.1 302 Found\r\nLocation: http://b/y\r\n\r\n",
               "HTTP/1.1 307 Temporary\r\nLocation: https://b:8443/z\r\n\r\n",
               "HTTP/1.1 308 Permanent\r\nLocation: https:///z\r\n\r\n",
               "HTTP/1.1 304 Unchanged\r\n\r\n",
               "HTTP/1.1 303 See\r\nlocation: /lower\r\n\r\n",
               "HTTP/1.1 404 Missing\r\nLocation: /gone\r\n\r\nNot Found",
               "HTTP/1.1 500 Broken\r\n\r\n",
               "",
               "HTTP/1.1 200 OK\r\nno separator\r\n\r\n"}}
    \cup {[src |-> <<Text("HTTP/1.1 200 OK\r\n")>>, err |-> TRUE]}

\* requests with a timeout of their own, and one to a URL without a host
TimeoutRequests ==
    {with_timeout(new(Method("Get"), u), t) :
        u \in {"http://a/x", "https://a/x"}, t \in Timeouts}
HostlessRequest == new(Method("Get"), "https:///x")

\* the texts MINREQ_TIMEOUT may hold
EnvTexts == {"0", "+7", "x"}

\* the request a caller sends and the environment it is sent in
DispatchInputs ==
    {[req |-> r, env |-> NoValue] :
        r \in DispatchRequests \cup TimeoutRequests \cup {HostlessRequest}}
    \cup {[req |-> r, env |-> [text |-> e]] :
            r \in {new(Method("Get"), "http://a/x"),
                   with_timeout(new(Method("Get"), "http://a/x"), 30)},
            e \in EnvTexts}

Init == /\ feature \in BOOLEAN
        /\ \E i \in DispatchInputs : req = i.req /\ env = i.env
        /\ lastOp = NoValue /\ wire = NoValue
        /\ pc = "send" /\ conn = "none" /\ written = 0 /\ nsend = 0
        /\ nconn = 0 /\ nredir = 0
        /\ prev = NoValue /\ result = NoResult
        /\ IdleUrl /\ IdleResp /\ IdleDec

\* Request::send
RequestSend ==
    /\ pc = "send"
    /\ nsend' = nsend + 1
    /\ IF request_send(req, feature) = "panic"
       THEN /\ pc' = "done"
            /\ result' = [kind |-> "Panic", why |-> "https feature not enabled"]
       ELSE /\ pc' = "serialize"
            /\ UNCHANGED result
    /\ UNCHANGED <<req, lastOp, wire, conn, written, prev, feature, env, nconn, nredir,
                   urlVars, respVars, decVars>>

\* Connection::send and send_https: clone the request, serialize it; on the
\* encrypted path the TLS session is then set up for the host's DNS name,
\* with an unwrap that panics when the name is refused
Serialize ==
    /\ pc = "serialize"
    /\ \E o \in Orders(DOMAIN req.headers) : wire' = [text |-> into_string(req, o)]
    /\ IF req.https /\ ~try_from_ascii_str(dns_name(req.host))
       THEN /\ pc' = "done"
            /\ result' = [kind |-> "Panic", why |-> "dns name"]
       ELSE /\ pc' = "connect"
            /\ UNCHANGED result
    /\ UNCHANGED <<req, lastOp, conn, written, nsend, prev, feature, env, nconn, nredir,
                   urlVars, respVars, decVars>>

\* create_tcp_stream succeeds
Connect ==
    /\ pc = "connect"
    /\ set_timeouts(connection_new(req, env)) = "Ok"
    /\ conn' = "open"
    /\ nconn' = nconn + 1
    /\ pc' = "write"
    /\ UNCHANGED <<req, lastOp, wire, written, nsend, prev, result, feature, env, nredir,
                   urlVars, respVars, decVars>>

\* create_tcp_stream: TcpStream::connect fails, the error is the result of the
\* whole chain
ConnectFail ==
    /\ pc = "connect"
    /\ pc' = "done"
    /\ result' = [kind |-> "Err", why |-> "connect"]
    /\ UNCHANGED <<req, lastOp, wire, conn, written, nsend, prev, feature, env, nconn, nredir,
                   urlVars, respVars, decVars>>

\* create_tcp_stream: TcpStream::connect succeeds, setting the timeouts fails
SetTimeoutFail ==
    /\ pc = "connect"
    /\ set_timeouts(connection_new(req, env)) = "Err"
    /\ conn' = "closed"
    /\ nconn' = nconn + 1
    /\ pc' = "done"
    /\ result' = [kind |-> "Err", why |-> "set_read_timeout"]
    /\ UNCHANGED <<req, lastOp, wire, written, nsend, prev, feature, env, nredir,
                   urlVars, respVars, decVars>>

\* Connection::send: one write call of write_all and of the BufWriter's flush;
\* the loop goes on until the transport has accepted every byte
WriteAll ==
    /\ pc = "write" /\ ~req.https
    /\ \E n \in Accepts(Len(wire.text) - written) :
          /\ written' = written + n
          /\ pc' = IF written + n = Len(wire.text) THEN "read" ELSE "write"
    /\ UNCHANGED <<req, lastOp, wire, conn, nsend, prev, result, feature, env, nconn, nredir,
                   urlVars, respVars, decVars>>

\* Connection::send_https: "let _ = tls.write(&bytes)?", a single write call
\* whose count of accepted bytes is discarded
WriteOnce ==
    /\ pc = "write" /\ req.https
    /\ \E n \in Accepts(Len(wire.text)) :
          written' = n
    /\ pc' = "read"
    /\ UNCHANGED <<req, lastOp, wire, conn, nsend, prev, result, feature, env, nconn, nredir,
                   urlVars, respVars, decVars>>

\* a write call fails: "?" returns the error and drops the stream
WriteFail ==
    /\ pc = "write"
    /\ pc' = "done"
    /\ conn' = "closed"
    /\ result' = [kind |-> "Err", why |-> "write"]
    /\ UNCHANGED <<req, lastOp, wire, written, nsend, prev, feature, env, nconn, nredir,
                   urlVars, respVars, decVars>>

\* Response::from_stream on what the server sends back; when it fails (an
\* error or a panic) the stream is dropped, otherwise the Response holds it
ReadResponse ==
    /\ pc = "read"
    /\ \E st \in ServerStreams :
          /\ stream' = st
          /\ resp' = from_stream(Reader(st))
          /\ IF from_stream(Reader(st)).kind = "Ok"
             THEN pc' = "match" /\ UNCHANGED <<result, conn>>
             ELSE /\ pc' = "done"
                  /\ conn' = "closed"
                  /\ result' = [kind |-> from_stream(Reader(st)).kind, why |-> "from_stream"]
    /\ UNCHANGED <<req, lastOp, wire, written, nsend, prev, feature, env, nconn, nredir,
                   urlVars, decVars>>

\* the response is handed to the caller: it is no redirect, or it carries no
\* Location
ReturnResponse ==
    /\ pc = "match"
    /\ after_response(resp) = "return"
    /\ pc' = "done"
    /\ result' = [kind |-> "Ok", resp |-> resp]
    /\ UNCHANGED <<req, lastOp, wire, conn, written, nsend, prev, feature, env, nconn, nredir,
                   urlVars, respVars, decVars>>

\* a plausible slip: "one-shot" redirect handling, the second redirect of a
\* chain is handed to the caller instead of being followed
FollowRedirectOnce ==
    /\ pc = "match"
    /\ after_response(resp) = "follow"
    /\ IF nredir = 0
       THEN /\ nsend < MaxSends
            /\ req' = redirect_request(req, resp.headers["Location"])
            /\ prev' = [req |-> req, resp |-> resp]
            /\ pc' = "send"
            /\ wire' = NoValue /\ conn' = "none" /\ written' = 0
            /\ stream' = NoValue /\ resp' = NoValue
            /\ nredir' = nredir + 1
            /\ UNCHANGED result
       ELSE /\ pc' = "done"
            /\ result' = [kind |-> "Ok", resp |-> resp]
            /\ UNCHANGED <<req, prev, wire, conn, written, stream, resp, nredir>>
    /\ UNCHANGED <<lastOp, nsend, nconn, feature, env, urlVars, decVars>>

\* Connection::handle_redirect: rewrite the cloned request and send it again
FollowRedirect ==
    /\ pc = "match"
    /\ after_response(resp) = "follow"
    /\ nsend < MaxSends
    /\ req' = redirect_request(req, resp.headers["Location"])
    /\ prev' = [req |-> req, resp |-> resp]
    /\ pc' = "send"
    /\ wire' = NoValue /\ conn' = "none" /\ written' = 0
    /\ stream' = NoValue /\ resp' = NoValue
    /\ nredir' = nredir + 1
    /\ UNCHANGED <<lastOp, nsend, nconn, result, feature, env, urlVars, decVars>>

Next ==
    \/ RequestSend \/ Serialize \/ Connect \/ ConnectFail \/ SetTimeoutFail
    \/ WriteAll \/ WriteOnce \/ WriteFail
    \/ ReadResponse \/ ReturnResponse \/ FollowRedirect

Spec == Init /\ [][Next]_vars


\* C6: after a Redirect-band response whose Location is a path, the request
\* sent next goes to the same host, port and scheme with that path as its
\* resource; when Location starts with http:// or https://, host, resource
\* and scheme are those of the Location URL.  Either way it keeps the method
\* and has no body, and a response returned to the caller is the one parsed
\* from the answer to the latest request, not the redirect response.
C6_RedirectTarget ==
    prev # NoValue =>
        LET loc == prev.resp.headers["Location"]
            absolute == \/ (Len(loc) >= 7 /\ SubSeq(loc, 1, 7) = "http://")
                        \/ (Len(loc) >= 8 /\ SubSeq(loc, 1, 8) = "https://")
        IN  /\ prev.resp.status.band = "Redirect"
            /\ (~absolute /\ Len(loc) >= 1 /\ SubSeq(loc, 1, 1) = "/") =>
                  /\ req.host = prev.req.host
                  /\ req.https = prev.req.https
                  /\ req.resource = loc
            /\ absolute =>
                  /\ req.host = parse_url(loc).host
                  /\ req.resource = parse_url(loc).resource
                  /\ req.https = parse_url(loc).https
            /\ loc = "http://b/y" =>
                  req.host = "b:80" /\ req.resource = "/y" /\ ~req.https
            /\ loc = "https://b:8443/z" =>
                  req.host = "b:8443" /\ req.resource = "/z" /\ req.https
            /\ req.method = prev.req.method
            /\ req.body = None
            /\ wire # NoValue =>
                  /\ StartsWith(wire.text,
                        MethodText(prev.req.method) \o " " \o req.resource \o " HTTP/1.1\r\n"
                            \o "Host: " \o req.host \o "\r\n")
                  /\ BytesAfterBlankLine(wire.text) = 0
            /\ result.kind = "Ok" =>
                  /\ stream # NoValue
                  /\ result.resp = from_stream(Reader(stream))
                  /\ result.resp # prev.resp

C6_Witness ==
    /\ prev # NoValue
    /\ prev.resp.headers["Location"] = "/new"
    /\ prev.req.body.some
    /\ prev.req.https
    /\ prev.req.resource = "/x"
    /\ result.kind = "Ok"
    /\ result.resp.status.code = 200

\* a response handed to the caller as a success is not a redirect to follow
\* and is the response parsed from the server's answer, unchanged
C7_ReturnedAsParsed ==
    result.kind = "Ok" =>
        /\ ~(result.resp.status.band = "Redirect" /\ "Location" \in DOMAIN result.resp.headers)
        /\ stream # NoValue
        /\ result.resp = from_stream(Reader(stream))
        /\ result.resp = resp

\* a parsed 4xx or 5xx response ends the send with that response as its
\* successful result, and no further request is made
C7_ErrorStatusReturned ==
    (/\ pc = "match"
     /\ resp.status.band \in {"ClientError", "ServerError"})
        => /\ pc' = "done"
           /\ result' = [kind |-> "Ok", resp |-> resp]
           /\ nsend' = nsend
           /\ wire' = wire /\ conn' = conn /\ written' = written

\* C7: every response send returns as a success is outside the Redirect band
\* or a Redirect-band response without Location, and is returned unchanged;
\* 4xx and 5xx responses are returned as successes and cause no further request.
C7_ReturnUnchanged ==
    []C7_ReturnedAsParsed /\ [][C7_ErrorStatusReturned]_vars

C7_Witness ==
    /\ result.kind = "Ok"
    /\ result.resp.status = [band |-> "ClientError", code |-> 404]
    /\ "Location" \in DOMAIN result.resp.headers
    /\ nsend = 2

\* C9: in a build without the https feature, a send of an encrypted request,
\* the caller's or the re-dispatch after a redirect to https://, ends in the
\* configuration failure with no connection opened and no byte written for it.
C9_NoTlsNoNetwork ==
    (~feature /\ req # NoValue /\ req.https /\ pc \notin {"send", "unused"}) =>
        /\ pc = "done"
        /\ result = [kind |-> "Panic", why |-> "https feature not enabled"]
        /\ conn = "none"
        /\ written = 0
        /\ wire = NoValue
        /\ stream = NoValue

C9_Witness ==
    /\ ~feature
    /\ prev # NoValue
    /\ ~prev.req.https
    /\ prev.resp.headers["Location"] = "https://b:8443/z"
    /\ req.https
    /\ result.kind = "Panic"
    /\ nsend = 2

\* C10: on the plain and on the encrypted path, the transport has accepted
\* every byte of the serialized request before the response is read, also
\* when a write call accepts only part of the bytes offered.
C10_WriteFullyBeforeRead ==
    (wire # NoValue /\ (pc = "read" \/ stream # NoValue)) =>
        written = Len(wire.text)


\* a response that sends the dispatcher on: Redirect band with a Location
IsRedirectWithLocation(rsp) ==
    /\ rsp.status.code >= 300 /\ rsp.status.code < 400
    /\ "Location" \in DOMAIN rsp.headers

\* k redirects followed make k + 1 send calls, each with at most one
\* connection of its own (no retry); a chain that returns a response has
\* made exactly k + 1 requests over k + 1 connections, and the response is
\* the last one parsed, which is no redirect to follow
C11_Counts ==
    /\ nsend = (IF pc = "send" THEN nredir ELSE nredir + 1)
    /\ nconn = (IF pc # "send" /\ conn = "none" THEN nsend - 1 ELSE nsend)
    /\ nconn <= nsend
    /\ result.kind = "Ok" =>
          /\ pc = "done"
          /\ nsend = nredir + 1
          /\ nconn = nsend
          /\ result.resp = resp
          /\ ~IsRedirectWithLocation(result.resp)

\* a redirect with Location is always followed, however many were followed
\* before and whether or not the same request was sent before; the chain
\* does not end there
C11_AlwaysFollowed ==
    (pc = "match" /\ IsRedirectWithLocation(resp)) =>
        /\ pc' = "send"
        /\ nredir' = nredir + 1
        /\ result' = NoResult
        /\ nconn' = nconn

\* once the chain has ended, with a response or with a failure, nothing more
\* is sent
C11_TerminalIsFinal == pc = "done" => UNCHANGED vars

\* the caller's own request is refused before anything is sent: the chain
\* never starts (no redirect involved)
RefusedAtOnce ==
    /\ result.kind = "Panic"
    /\ result.why \in {"https feature not enabled", "dns name"}
    /\ nredir = 0

\* the failures of the transport and of the parse of a response
TransportOrParseFailure ==
    /\ result.kind \in {"Err", "Panic"}
    /\ result.why \in {"connect", "set_read_timeout", "write", "from_stream"}

\* a chain ends only with a response that is no redirect to follow, or with a
\* transport or parse failure
C11_EndsByResponseOrError ==
    (pc = "done" /\ ~RefusedAtOnce) =>
        \/ result.kind = "Ok" /\ ~IsRedirectWithLocation(result.resp)
        \/ TransportOrParseFailure

\* ... or with the panic of a re-dispatch to an https:// target: in a build
\* without the https feature the configuration failure, in a build with it the
\* refusal of the target's host as a DNS name
C11_EndsByResponseOrFailure ==
    (pc = "done" /\ ~RefusedAtOnce) =>
        \/ result.kind = "Ok" /\ ~IsRedirectWithLocation(result.resp)
        \/ TransportOrParseFailure
        \/ /\ result = [kind |-> "Panic", why |-> "https feature not enabled"]
           /\ ~feature /\ req.https /\ ~prev.req.https
           /\ StartsWith(prev.resp.headers["Location"], "https://")
        \/ /\ result = [kind |-> "Panic", why |-> "dns name"]
           /\ feature /\ req.https
           /\ StartsWith(prev.resp.headers["Location"], "https://")
           /\ ~try_from_ascii_str(dns_name(req.host))
           /\ nconn = nsend - 1

\* C11 as stated: redirects are followed without hop limit or cycle
\* detection, k redirects and a final response make exactly k + 1 requests
\* with one connection each, and the chain never ends on a redirect unless a
\* transport or parse failure occurs, which then ends the whole chain.
C11_AsStated ==
    /\ [](C11_Counts /\ C11_EndsByResponseOrError)
    /\ [][C11_AlwaysFollowed /\ C11_TerminalIsFinal]_vars

\* C11 as amended: the same, where the chain may also end with the panic of
\* a re-dispatch to an https:// target (no encryption support in the build,
\* or a host that is no DNS name in a build with it).
C11_UnboundedRedirects ==
    /\ [](C11_Counts /\ C11_EndsByResponseOrFailure)
    /\ [][C11_AlwaysFollowed /\ C11_TerminalIsFinal]_vars

\* a cycle: the request just redirected is sent again unchanged, as the last
\* request the bound of the model allows, and answered
C11_Witness ==
    /\ prev # NoValue
    /\ prev.req = req
    /\ nredir = MaxSends - 1
    /\ nsend = MaxSends
    /\ nconn = MaxSends
    /\ result.kind = "Ok"
    /\ result.resp.status.code = 200


\* the header block of the serialized request t: the text before its first
\* blank line
HeaderBlockText(t) == SubSeq(t, 1, Len(t) - BytesAfterBlankLine(t) - 2)

\* the values the header block b gives for header key, one per line "key: value"
HeaderValuesIn(b, key) ==
    LET mark == "\r\n" \o key \o ": "
        starts == {i \in 1..Len(b) : StartsWith(SubSeq(b, i, Len(b)), mark)}
        valueAt(i) ==
            LET from == i + Len(mark)
                stop == CHOOSE j \in from..Len(b) :
                            /\ SubSeq(b, j, j + 1) = "\r\n"
                            /\ \A k \in from..(j - 1) : SubSeq(b, k, k + 1) # "\r\n"
            IN  SubSeq(b, from, stop - 1)
    IN  {valueAt(i) : i \in starts}

\* C12: in every request the dispatcher transmits, the first one and every
\* re-dispatch after a redirect, a Content-Length in the header block equals
\* the number of body bytes sent after the blank line; a request whose body
\* was dropped for the redirect does not carry the dropped body's length.
C12_ContentLengthMatchesBody ==
    (wire # NoValue /\ conn = "open") =>
        \A v \in HeaderValuesIn(HeaderBlockText(wire.text), "Content-Length") :
            DecimalValue(v) = BytesAfterBlankLine(wire.text)

=============================================================================
